---- MODULE Spec2Model ----
(***************************************************************************)
(* Model of mindsdb/integrations/handlers/openai_handler/helpers.py:       *)
(*   - retry_with_exponential_backoff(...).wrapper    (specification Spec) *)
(*   - truncate_msgs_for_token_limit and count_tokens (specification       *)
(*     SpecTrunc)                                                          *)
(*                                                                         *)
(* Numbers.  Delays are seconds.  hour_budget is given in tenths of an     *)
(* hour, so hour_budget * 3600 is hb_tenths * 360 seconds.  The jitter     *)
(* draw random.random() is any float from 0 to 1 - 2^-53: it is not        *)
(* enumerated, it is kept as the range RandomDraws.  For the largest draw  *)
(* the float sum 1 + random.random() rounds to 2.0, so the factor          *)
(* 1 + jitter * random.random() goes from 1 to 2, both ends reached.       *)
(* delay, and every duration passed to time.sleep, is therefore a range    *)
(* [lo, hi] of seconds: any v with lo <= v <= hi.  A state with jitter on  *)
(* stands for every run in which each delay is the one before multiplied   *)
(* by exponential_base * (1 + r) for some r of RandomDraws.                *)
(* Jitter is enumerated where the upper ends of the ranges and their sum   *)
(* fit the 32-bit integers of the model checker.                           *)
(* initial_delay ranges over 0..MaxInitialDelay (a negative delay is not   *)
(* enumerated), exponential_base over 1..MaxBase.                          *)
(***************************************************************************)
EXTENDS Integers, Sequences, FiniteSets

(* ---------------------------------------------------------------------- *)
(* Bounds of the exploration                                              *)
(* ---------------------------------------------------------------------- *)
MaxInitialDelay == 2
MaxBudgetTenths == 3
MaxBase == 3

(* ---------------------------------------------------------------------- *)
(* Errors the wrapped operation can raise                                 *)
(* ---------------------------------------------------------------------- *)

\* Python / openai class hierarchy: the direct base class of each class.
Parent(c) ==
    CASE c = "PendingFT" -> "OpenAIError"
      [] c = "APIError" -> "OpenAIError"
      [] c = "APIStatusError" -> "APIError"
      [] c = "RateLimitError" -> "APIStatusError"
      [] c = "APIResponseValidationError" -> "APIError"
      [] c = "APIConnectionError" -> "APIError"
      [] c = "APITimeoutError" -> "APIConnectionError"
      [] c = "OpenAIError" -> "Exception"
      [] c = "ValueError" -> "Exception"
      [] c = "Exception" -> "BaseException"
      [] c = "KeyboardInterrupt" -> "BaseException"
      [] OTHER -> "object"

RECURSIVE IsSubclass(_, _)
IsSubclass(c, base) ==
    IF c = base THEN TRUE
    ELSE IF c = "object" THEN FALSE
    ELSE IsSubclass(Parent(c), base)

\* isinstance(e, classes) for a tuple of classes, as an except clause tests it.
IsInstance(e, classes) == \E b \in classes : IsSubclass(e.cls, b)

\* Default classification sets of the decorator.
wait_errors == {"APITimeoutError", "APIConnectionError", "PendingFT"}
status_errors == {"APIStatusError", "APIResponseValidationError"}

\* Response bodies: absent, raw text (not a mapping), a mapping without a
\* "message" entry, a mapping with one.
NoBody == [kind |-> "none", has_message |-> FALSE, message |-> ""]
Bodies ==
    { NoBody,
      [kind |-> "raw", has_message |-> FALSE, message |-> ""],
      [kind |-> "dict", has_message |-> FALSE, message |-> ""],
      [kind |-> "dict", has_message |-> TRUE, message |-> "quota exceeded"] }

Errors ==
    [cls : {"APIStatusError"}, status_code : {400}, body : Bodies,
     message : {"rejected"}]
    \cup [cls : {"RateLimitError"}, status_code : {429},
          body : {b \in Bodies : b.has_message}, message : {"rate"}]
    \cup [cls : {"APIResponseValidationError"}, status_code : {200},
          body : {b \in Bodies : b.kind # "raw"}, message : {"invalid"}]
    \cup [cls : {"APITimeoutError", "APIConnectionError", "PendingFT",
                 "APIError", "OpenAIError", "ValueError", "KeyboardInterrupt"},
          status_code : {0}, body : {NoBody}, message : {"boom"}]

NoErr == [cls |-> "object", status_code |-> 0, body |-> NoBody, message |-> ""]

\* str(e).  PendingFT.__init__ calls super().__init__() without the message,
\* so the exception has no args and str(e) is empty.
StrOf(e) == IF e.cls = "PendingFT" THEN "" ELSE e.message

\* Values the wrapped operation can return.
Values == {"r1", "r2"}

(* ---------------------------------------------------------------------- *)
(* Retry policy and the max_retries computation                           *)
(* ---------------------------------------------------------------------- *)

RECURSIVE Pow(_, _)
Pow(b, e) == IF e <= 0 THEN 1 ELSE b * Pow(b, e - 1)

\* log_b(s/d) >= n - 1/2, for s, d > 0 and b >= 2, in integers.
HalfGe(s, d, b, n) ==
    IF 2 * n - 1 >= 0
    THEN s * s >= d * d * Pow(b, 2 * n - 1)
    ELSE s * s * Pow(b, 1 - 2 * n) >= d * d

HalfEq(s, d, b, n) ==
    IF 2 * n - 1 >= 0
    THEN s * s = d * d * Pow(b, 2 * n - 1)
    ELSE s * s * Pow(b, 1 - 2 * n) = d * d

RECURSIVE RoundUp(_, _, _, _)
RoundUp(s, d, b, n) ==
    IF HalfGe(s, d, b, n + 1) THEN RoundUp(s, d, b, n + 1) ELSE n

RECURSIVE RoundDown(_, _, _, _)
RoundDown(s, d, b, n) ==
    IF HalfGe(s, d, b, n) THEN n ELSE RoundDown(s, d, b, n - 1)

\* round(math.log(s / d) / math.log(b)); round() rounds a half to even.
RoundLog(s, d, b) ==
    LET n == IF HalfGe(s, d, b, 1) THEN RoundUp(s, d, b, 1)
             ELSE RoundDown(s, d, b, 0)
    IN IF HalfEq(s, d, b, n) /\ n % 2 = 1 THEN n - 1 ELSE n

Max(a, b) == IF a >= b THEN a ELSE b

\* The budget converted to minutes instead of seconds.
BudgetSeconds_Minutes(p) == p.hb_tenths * 6

\* hour_budget * 3600, in seconds.
BudgetSeconds(p) == p.hb_tenths * 360

\* Lines 53-63.  The result is [exc, value]: exc = "" when max_retries was
\* computed, otherwise the exception that leaves the wrapper.
ComputeMaxRetriesOf(p) ==
    IF ~p.hb_numeric THEN [exc |-> "", value |-> Max(1, 10)]
    ELSE IF p.initial_delay = 0
         THEN [exc |-> "ZeroDivisionError", value |-> 0]
    ELSE IF BudgetSeconds(p) <= 0
         THEN [exc |-> "", value |-> Max(1, 10)]
    ELSE IF p.exponential_base = 1
         THEN [exc |-> "ZeroDivisionError", value |-> 0]
    ELSE [exc |-> "",
          value |-> Max(1, RoundLog(BudgetSeconds(p), p.initial_delay,
                                    p.exponential_base))]

\* hb_numeric = FALSE stands for an hour_budget that is neither float nor int.
Policies ==
    { p \in [initial_delay : 0..MaxInitialDelay,
             hb_numeric : BOOLEAN,
             hb_tenths : -1..MaxBudgetTenths,
             jitter : BOOLEAN,
             exponential_base : 1..MaxBase] :
        /\ (~p.hb_numeric => p.hb_tenths = 0)
        /\ (p.jitter => p.initial_delay <=
                1073741823 \div Pow(2 * p.exponential_base,
                                    ComputeMaxRetriesOf(p).value)) }

(* ---------------------------------------------------------------------- *)
(* State of one invocation of wrapper                                     *)
(* ---------------------------------------------------------------------- *)
VARIABLES
    policy,       \* closure variables of the decorator
    pc,           \* "start", "call" (top of while True), "done"
    num_retries,  \* local num_retries
    delay,        \* local delay, a range of seconds
    max_retries,  \* local max_retries (0 until computed)
    outcome,      \* how the invocation ended
    attempts,     \* number of calls of func so far
    transient,    \* number of those calls that raised a wait_errors instance
    waits,        \* durations passed to time.sleep, in order (ranges)
    last_err,     \* error raised by the latest call of func (NoErr if none)
    last_value    \* value returned by the latest call of func ("" if none)

rvars == <<policy, pc, num_retries, delay, max_retries, outcome, attempts,
           transient, waits, last_err, last_value>>

Running == [kind |-> "running", exc |-> "", fmt |-> "", num |-> 0,
            text |-> "", value |-> "", orig |-> NoErr]

Returned(v) == [Running EXCEPT !.kind = "return", !.value = v]

\* raise Exception(f'Error status {e.status_code} raised by OpenAI API: ...')
RequestRejected(code, msg) ==
    [Running EXCEPT !.kind = "raise", !.exc = "Exception",
                    !.fmt = "Error status", !.num = code, !.text = msg]

\* raise Exception(f"Maximum number of retries ({max_retries}) exceeded.")
RetriesExhausted(n) ==
    [Running EXCEPT !.kind = "raise", !.exc = "Exception",
                    !.fmt = "Maximum number of retries", !.num = n]

\* raise Exception(f'General {str(e)} error raised by OpenAI. ...')
GeneralAPIError(e) ==
    [Running EXCEPT !.kind = "raise", !.exc = "Exception",
                    !.fmt = "General", !.text = StrOf(e)]

\* the error e itself leaves the wrapper
Propagated(e) ==
    [Running EXCEPT !.kind = "raise", !.exc = e.cls, !.fmt = "original",
                    !.text = StrOf(e), !.orig = e]

\* an exception raised by the wrapper's own code (not by func)
Crashed(exc) == [Running EXCEPT !.kind = "raise", !.exc = exc]

\* The default of e.body.get: the pointer to the error-codes guide.
\* The source delimits the URL with the grave accent, a character no TLA+
\* string can hold; it is written as an apostrophe here.
DocPointer ==
    "Please refer to 'https://platform.openai.com/docs/guides/error-codes' for more information."

\* Line 71: e.body.get("message", <documentation pointer>).
StatusOutcome(e) ==
    IF e.body.kind # "dict" THEN Crashed("AttributeError")
    ELSE IF e.body.has_message
         THEN RequestRejected(e.status_code, e.body.message)
    ELSE RequestRejected(e.status_code, DocPointer)

\* Status errors are retried like transient errors.
Classify_StatusRetried(e) ==
    IF IsInstance(e, status_errors \cup wait_errors) THEN "wait"
    ELSE IF IsInstance(e, {"OpenAIError"}) THEN "general"
    ELSE IF IsInstance(e, {"Exception"}) THEN "other"
    ELSE "uncaught"

\* The OpenAIError clause placed before the wait_errors clause.
Classify_GeneralFirst(e) ==
    IF IsInstance(e, status_errors) THEN "status"
    ELSE IF IsInstance(e, {"OpenAIError"}) THEN "general"
    ELSE IF IsInstance(e, wait_errors) THEN "wait"
    ELSE IF IsInstance(e, {"Exception"}) THEN "other"
    ELSE "uncaught"

\* The except clause of lines 69-90 that handles e, in clause order.
Classify(e) ==
    IF IsInstance(e, status_errors) THEN "status"
    ELSE IF IsInstance(e, wait_errors) THEN "wait"
    ELSE IF IsInstance(e, {"OpenAIError"}) THEN "general"
    ELSE IF IsInstance(e, {"Exception"}) THEN "other"
    ELSE "uncaught"

\* Linear instead of exponential backoff.
NextDelay_Additive(d, p, r) == d + p.exponential_base

\* Line 81: delay * exponential_base * (1 + jitter * random.random()) for
\* the draw r; jitter is a bool and counts as 0 or 1.
NextDelay(d, p, r) ==
    d * p.exponential_base * (1 + (IF p.jitter THEN 1 ELSE 0) * r)

\* Line 81: random.random() returns a float r with 0 <= r <= 1 - 2^-53.
\* The float sum 1 + r is 1.0 for r = 0 and rounds to 2.0 for the largest
\* r, as it would for r = 1: hi = 1 stands for that draw.
RandomDraws == [lo |-> 0, hi |-> 1]

\* The range that holds exactly v.
Exactly(v) == [lo |-> v, hi |-> v]

\* Line 81 on a range of delays: NextDelay grows with the delay and with the
\* draw, so the new delays go from NextDelay of the smallest delay and draw
\* to NextDelay of the largest delay and draw, both included.
NextDelayRange(d, p) ==
    [lo |-> NextDelay(d.lo, p, RandomDraws.lo),
     hi |-> NextDelay(d.hi, p, RandomDraws.hi)]

\* Off by one: one more failure is tolerated.
RetriesExceeded_Late(n, limit) == n > limit + 1

\* Off by one: the limit is hit one failure early.
RetriesExceeded_Geq(n, limit) == n >= limit

\* Line 76: num_retries > max_retries.
RetriesExceeded(n, limit) == n > limit

\* The unknown error is wrapped instead of re-raised.
OtherOutcome_Wrapped(e) == GeneralAPIError(e)

\* Line 90: raise e.
OtherOutcome(e) == Propagated(e)

InitRetry ==
    /\ policy \in Policies
    /\ pc = "start"
    /\ num_retries = 0
    /\ delay = Exactly(0)
    /\ max_retries = 0
    /\ outcome = Running
    /\ attempts = 0
    /\ transient = 0
    /\ waits = <<>>
    /\ last_err = NoErr
    /\ last_value = ""

\* Lines 50-63: the locals of one invocation.
ComputeMaxRetries ==
    /\ pc = "start"
    /\ LET r == ComputeMaxRetriesOf(policy) IN
         /\ num_retries' = 0
         /\ delay' = Exactly(policy.initial_delay)
         /\ IF r.exc = ""
            THEN /\ max_retries' = r.value
                 /\ pc' = "call"
                 /\ UNCHANGED outcome
            ELSE /\ pc' = "done"
                 /\ outcome' = Crashed(r.exc)
                 /\ UNCHANGED max_retries
    /\ UNCHANGED <<policy, attempts, transient, waits, last_err, last_value>>

\* One call of func that raises e: the bookkeeping of what func did.
Called(e) ==
    /\ attempts' = attempts + 1
    /\ transient' = IF IsInstance(e, wait_errors) THEN transient + 1
                    ELSE transient
    /\ last_err' = e
    /\ last_value' = ""

\* Line 67: func returns.
CallReturns ==
    /\ pc = "call"
    /\ \E v \in Values :
         /\ last_value' = v
         /\ outcome' = Returned(v)
         /\ pc' = "done"
    /\ attempts' = attempts + 1
    /\ last_err' = NoErr
    /\ UNCHANGED transient
    /\ UNCHANGED <<policy, num_retries, delay, max_retries, waits>>

\* Lines 69-72: except status_errors.
StatusError ==
    /\ pc = "call"
    /\ \E e \in Errors :
         /\ Classify(e) = "status"
         /\ Called(e)
         /\ outcome' = StatusOutcome(e)
         /\ pc' = "done"
    /\ UNCHANGED <<policy, num_retries, delay, max_retries, waits>>

\* Lines 74-82: except wait_errors.
WaitError ==
    /\ pc = "call"
    /\ \E e \in Errors :
         /\ Classify(e) = "wait"
         /\ Called(e)
         /\ num_retries' = num_retries + 1
         /\ IF RetriesExceeded(num_retries + 1, max_retries)
            THEN /\ outcome' = RetriesExhausted(max_retries)
                 /\ pc' = "done"
                 /\ UNCHANGED <<delay, waits>>
            ELSE /\ delay' = NextDelayRange(delay, policy)
                 /\ waits' = Append(waits, NextDelayRange(delay, policy))
                 /\ pc' = "call"
                 /\ UNCHANGED outcome
    /\ UNCHANGED <<policy, max_retries>>

\* Lines 84-87: except openai.OpenAIError.
GeneralError ==
    /\ pc = "call"
    /\ \E e \in Errors :
         /\ Classify(e) = "general"
         /\ Called(e)
         /\ outcome' = GeneralAPIError(e)
         /\ pc' = "done"
    /\ UNCHANGED <<policy, num_retries, delay, max_retries, waits>>

\* Lines 89-90: except Exception: raise e; an error that no clause catches
\* (a BaseException) leaves the wrapper the same way.
OtherError ==
    /\ pc = "call"
    /\ \E e \in Errors :
         /\ Classify(e) \in {"other", "uncaught"}
         /\ Called(e)
         /\ outcome' = OtherOutcome(e)
         /\ pc' = "done"
    /\ UNCHANGED <<policy, num_retries, delay, max_retries, waits>>

(* ---------------------------------------------------------------------- *)
(* truncate_msgs_for_token_limit and count_tokens                         *)
(* ---------------------------------------------------------------------- *)

\* Bounds of the exploration
MaxLen == 5
MaxTokens == 45
\* Cap on the counted passes through the loop body (the loop itself has none).
MaxIter == 4

\* A message is a mapping from field names to strings.
MessagePool ==
    { [role |-> "system", content |-> "a"],
      [role |-> "user", content |-> "hi"],
      [role |-> "user", content |-> "hello world"],
      [role |-> "user", name |-> "bob", content |-> "x"] }

RECURSIVE SeqsUpTo(_, _)
SeqsUpTo(S, n) ==
    IF n = 0 THEN {<<>>}
    ELSE LET shorter == SeqsUpTo(S, n - 1)
         IN shorter \cup {Append(q, x) : q \in {z \in shorter : Len(z) = n - 1}, x \in S}

ModelNames == {"gpt-3.5-turbo-0301", "gpt-4", "llama-2"}

\* tiktoken.encoding_for_model (line 102) raises KeyError for a model name it
\* cannot map to an encoding.
EncodingKnown(model) == model \in {"gpt-3.5-turbo-0301", "gpt-4"}

\* "gpt-3.5-turbo" in model_name (line 125)
IsTurbo(model) == model \in {"gpt-3.5-turbo-0301"}

\* len(encoder.encode(value)), with an encoder of one token per character.
EncodedLen(value) == Len(value)

RECURSIVE SumOver(_, _)
SumOver(f, keys) ==
    IF keys = {} THEN 0
    ELSE LET k == CHOOSE x \in keys : TRUE
         IN f[k] + SumOver(f, keys \ {k})

\* The name field is counted without the discount of line 135.
MessageTokens_NoNameDiscount(message) ==
    4 + SumOver([k \in DOMAIN message |-> EncodedLen(message[k])], DOMAIN message)

\* Lines 129-135: the contribution of one message.
MessageTokens(message) ==
    4 + SumOver([k \in DOMAIN message |-> EncodedLen(message[k])], DOMAIN message)
      + (IF "name" \in DOMAIN message THEN -1 ELSE 0)

RECURSIVE SumMessages(_)
SumMessages(msgs) ==
    IF msgs = <<>> THEN 0
    ELSE MessageTokens(Head(msgs)) + SumMessages(Tail(msgs))

\* Lines 122-141.  [exc, value]: exc = "" when a count is returned.
count_tokens(msgs, model) ==
    IF IsTurbo(model) THEN [exc |-> "", value |-> SumMessages(msgs) + 2]
    ELSE [exc |-> "NotImplementedError", value |-> 0]

\* Python slices of a list.
SliceTo1(s) == SubSeq(s, 1, IF Len(s) >= 1 THEN 1 ELSE 0)
SliceFrom2(s) == SubSeq(s, 3, Len(s))
Slice1ToLast(s) == SubSeq(s, 2, Len(s) - 1)
SliceToLast(s) == SubSeq(s, 1, Len(s) - 1)

VARIABLES
    orig_messages,  \* the argument messages, as passed
    model_name,     \* argument
    max_tokens,     \* argument
    truncate,       \* argument
    messages,       \* local messages (rebound by the loop)
    sys_priming,    \* local
    n_tokens,       \* local
    tpc,            \* "start", "loop" (the while test), "done"
    t_outcome,      \* how the call ended
    iterations      \* passes through lines 113-118 so far

tvars == <<orig_messages, model_name, max_tokens, truncate, messages,
           sys_priming, n_tokens, tpc, t_outcome, iterations>>

\* Several invocations of one wrapped function, each with its own locals.
VARIABLES
    frames          \* frames[i]: the locals of invocation context i

vars == <<rvars, tvars, frames>>

TRunning == [kind |-> "running", exc |-> "", msgs |-> <<>>]
TReturned(m) == [kind |-> "return", exc |-> "", msgs |-> m]
TRaised(x) == [kind |-> "raise", exc |-> x, msgs |-> <<>>]

InitTrunc ==
    /\ orig_messages \in SeqsUpTo(MessagePool, MaxLen)
    /\ model_name \in ModelNames
    /\ max_tokens \in 0..MaxTokens
    /\ truncate \in {"first", "last"}
    /\ messages = orig_messages
    /\ sys_priming = <<>>
    /\ n_tokens = 0
    /\ tpc = "start"
    /\ t_outcome = TRunning
    /\ iterations = 0

\* The loop stops one token over the limit.
OverBudget_Lenient(n, limit) == n > limit + 1

\* The loop also runs when the count equals the limit.
OverBudget_Geq(n, limit) == n >= limit

\* Line 105: the while test.
OverBudget(n, limit) == n > limit

\* The first of the two messages is dropped instead of the last.
EdgeTwoResult_DropFirst(msgs) == Tail(msgs)

\* Lines 107-109: messages[:-1].
EdgeTwoResult(msgs) == SliceToLast(msgs)

\* Lines 102-104.
TruncStart ==
    /\ tpc = "start"
    /\ IF ~EncodingKnown(model_name)
       THEN /\ t_outcome' = TRaised("KeyError")
            /\ tpc' = "done"
            /\ UNCHANGED <<sys_priming, n_tokens>>
       ELSE /\ sys_priming' = SliceTo1(messages)
            /\ LET c == count_tokens(messages, model_name) IN
                 IF c.exc # ""
                 THEN /\ t_outcome' = TRaised(c.exc)
                      /\ tpc' = "done"
                      /\ UNCHANGED n_tokens
                 ELSE /\ n_tokens' = c.value
                      /\ tpc' = "loop"
                      /\ UNCHANGED t_outcome
    /\ UNCHANGED <<orig_messages, model_name, max_tokens, truncate, messages,
                   iterations>>

\* Lines 105 and 119: the while test fails, return messages.
TruncReturn ==
    /\ tpc = "loop"
    /\ ~OverBudget(n_tokens, max_tokens)
    /\ t_outcome' = TReturned(messages)
    /\ tpc' = "done"
    /\ UNCHANGED <<orig_messages, model_name, max_tokens, truncate, messages,
                   sys_priming, n_tokens, iterations>>

\* Lines 106-109: two messages left, return messages[:-1].
TruncEdgeTwo ==
    /\ tpc = "loop"
    /\ OverBudget(n_tokens, max_tokens)
    /\ Len(messages) = 2
    /\ t_outcome' = TReturned(EdgeTwoResult(messages))
    /\ tpc' = "done"
    /\ UNCHANGED <<orig_messages, model_name, max_tokens, truncate, messages,
                   sys_priming, n_tokens, iterations>>

\* Lines 110-111: one message left, return messages.
TruncEdgeOne ==
    /\ tpc = "loop"
    /\ OverBudget(n_tokens, max_tokens)
    /\ Len(messages) = 1
    /\ t_outcome' = TReturned(messages)
    /\ tpc' = "done"
    /\ UNCHANGED <<orig_messages, model_name, max_tokens, truncate, messages,
                   sys_priming, n_tokens, iterations>>

\* The two truncation sides are exchanged.
DropOne_Swapped(msgs, priming, side) ==
    IF side = "first" THEN priming \o Slice1ToLast(msgs)
    ELSE priming \o SliceFrom2(msgs)

\* The priming message is not put back in front.
DropOne_NoPriming(msgs, priming, side) ==
    IF side = "first" THEN SubSeq(msgs, 2, Len(msgs))
    ELSE SliceToLast(msgs)

\* Lines 113-116: the list the loop rebinds messages to.
DropOne(msgs, priming, side) ==
    IF side = "first" THEN priming \o SliceFrom2(msgs)
    ELSE priming \o Slice1ToLast(msgs)

\* Lines 113-118: drop one message and recount.
TruncDrop ==
    /\ tpc = "loop"
    /\ OverBudget(n_tokens, max_tokens)
    /\ Len(messages) \notin {1, 2}
    /\ iterations < MaxIter
    /\ iterations' = iterations + 1
    /\ messages' = DropOne(messages, sys_priming, truncate)
    /\ n_tokens' = count_tokens(DropOne(messages, sys_priming, truncate),
                                model_name).value
    /\ UNCHANGED <<orig_messages, model_name, max_tokens, truncate,
                   sys_priming, tpc, t_outcome>>

(* ---------------------------------------------------------------------- *)
(* Invocations of the same wrapped function from several contexts         *)
(* ---------------------------------------------------------------------- *)

\* Number of execution contexts (threads or successive callers).
NumCalls == 2

\* A context that is not inside wrapper: no locals exist.
IdleFrame == [pc |-> "idle", num_retries |-> 0, delay |-> Exactly(0),
              max_retries |-> 0, failures |-> 0]

\* The retry state is kept outside wrapper and shared: a new invocation
\* starts from what the next context has reached.
FrameLocals_Shared(fs, i, p) ==
    [num_retries |-> fs[(i % Len(fs)) + 1].num_retries,
     delay |-> IF fs[(i % Len(fs)) + 1].pc = "call"
               THEN fs[(i % Len(fs)) + 1].delay
               ELSE Exactly(p.initial_delay)]

\* Lines 50-51: num_retries and delay are locals of wrapper.
FrameLocals(fs, i, p) ==
    [num_retries |-> 0, delay |-> Exactly(p.initial_delay)]

\* Lines 49-63 in context i: a new invocation.
FrameStart(i) ==
    /\ frames[i].pc = "idle"
    /\ LET r == ComputeMaxRetriesOf(policy)
           l == FrameLocals(frames, i, policy)
       IN frames' = [frames EXCEPT ![i] =
                        IF r.exc # "" THEN IdleFrame
                        ELSE [pc |-> "call", num_retries |-> l.num_retries,
                              delay |-> l.delay, max_retries |-> r.value,
                              failures |-> 0]]
    /\ UNCHANGED <<rvars, tvars>>

\* Lines 67-72 and 84-90 in context i: func returns or raises an error that
\* ends the invocation; its locals are discarded.
FrameEnd(i) ==
    /\ frames[i].pc = "call"
    /\ \/ \E v \in Values : TRUE
       \/ \E e \in Errors : Classify(e) # "wait"
    /\ frames' = [frames EXCEPT ![i] = IdleFrame]
    /\ UNCHANGED <<rvars, tvars>>

\* Lines 74-82 in context i: func raises a wait_errors instance.
FrameWait(i) ==
    /\ frames[i].pc = "call"
    /\ \E e \in Errors :
         /\ Classify(e) = "wait"
         /\ IF RetriesExceeded(frames[i].num_retries + 1, frames[i].max_retries)
            THEN frames' = [frames EXCEPT ![i] = IdleFrame]
            ELSE frames' = [frames EXCEPT
                              ![i].num_retries = @ + 1,
                              ![i].failures = @ + 1,
                              ![i].delay = NextDelayRange(@, policy)]
    /\ UNCHANGED <<rvars, tvars>>

(* ---------------------------------------------------------------------- *)
(* Specifications                                                         *)
(* ---------------------------------------------------------------------- *)

IdlePolicy == [initial_delay |-> 1, hb_numeric |-> TRUE, hb_tenths |-> 3,
               jitter |-> FALSE, exponential_base |-> 2]

IdleRetry ==
    /\ policy = IdlePolicy
    /\ pc = "idle"
    /\ num_retries = 0
    /\ delay = Exactly(0)
    /\ max_retries = 0
    /\ outcome = Running
    /\ attempts = 0
    /\ transient = 0
    /\ waits = <<>>
    /\ last_err = NoErr
    /\ last_value = ""

IdleTrunc ==
    /\ orig_messages = <<>>
    /\ model_name = "gpt-3.5-turbo-0301"
    /\ max_tokens = 0
    /\ truncate = "first"
    /\ messages = <<>>
    /\ sys_priming = <<>>
    /\ n_tokens = 0
    /\ tpc = "idle"
    /\ t_outcome = TRunning
    /\ iterations = 0

\* One invocation of the wrapper under every policy.
Init == InitRetry /\ IdleTrunc /\ frames = <<>>

Next ==
    \/ ComputeMaxRetries /\ UNCHANGED <<tvars, frames>>
    \/ CallReturns /\ UNCHANGED <<tvars, frames>>
    \/ StatusError /\ UNCHANGED <<tvars, frames>>
    \/ WaitError /\ UNCHANGED <<tvars, frames>>
    \/ GeneralError /\ UNCHANGED <<tvars, frames>>
    \/ OtherError /\ UNCHANGED <<tvars, frames>>

Spec == Init /\ [][Next]_vars

\* The same invocation when every call of func and every time.sleep ends:
\* the wrapper is synchronous, so its next step is then always taken.
SpecFair == Init /\ [][Next]_vars /\ WF_vars(Next)

\* One call of truncate_msgs_for_token_limit on every bounded input.
TInit == InitTrunc /\ IdleRetry /\ frames = <<>>

TNext ==
    \/ TruncStart /\ UNCHANGED <<rvars, frames>>
    \/ TruncReturn /\ UNCHANGED <<rvars, frames>>
    \/ TruncEdgeTwo /\ UNCHANGED <<rvars, frames>>
    \/ TruncEdgeOne /\ UNCHANGED <<rvars, frames>>
    \/ TruncDrop /\ UNCHANGED <<rvars, frames>>

SpecTrunc == TInit /\ [][TNext]_vars

\* NumCalls contexts invoking the same wrapped function in any interleaving,
\* each again and again, under every policy without jitter.
CInit ==
    /\ policy \in {p \in Policies : ~p.jitter}
    /\ pc = "idle"
    /\ num_retries = 0
    /\ delay = Exactly(0)
    /\ max_retries = 0
    /\ outcome = Running
    /\ attempts = 0
    /\ transient = 0
    /\ waits = <<>>
    /\ last_err = NoErr
    /\ last_value = ""
    /\ IdleTrunc
    /\ frames = [i \in 1..NumCalls |-> IdleFrame]

CNext ==
    \E i \in 1..NumCalls :
        \/ FrameStart(i)
        \/ FrameEnd(i)
        \/ FrameWait(i)

SpecCalls == CInit /\ [][CNext]_vars

(* ---------------------------------------------------------------------- *)
(* Properties of the wrapper (specification Spec)                         *)
(* ---------------------------------------------------------------------- *)

\* The upper end of the total of the sleeps q.
RECURSIVE SumSeq(_)
SumSeq(q) == IF q = <<>> THEN 0 ELSE Head(q).hi + SumSeq(Tail(q))

\* func has been called and every call so far raised a wait_errors instance.
AllTransient == attempts >= 1 /\ transient = attempts

\* The latest call of func raised e-class errors of the given classes.
LastRaised(classes) == last_err # NoErr /\ IsInstance(last_err, classes)

\* C1: when every call of func raises a transient error, the invocation ends
\* after exactly max_retries + 1 calls and exactly max_retries waits, with
\* the "Maximum number of retries (max_retries) exceeded." error; before
\* that, every failed call was followed by one wait and another call.
C1_ExhaustedAfterMaxRetriesPlusOne ==
    AllTransient =>
        /\ pc = "call" => (attempts <= max_retries /\ Len(waits) = attempts)
        /\ pc = "done" =>
              /\ attempts = max_retries + 1
              /\ Len(waits) = max_retries
              /\ outcome = RetriesExhausted(max_retries)

C1_Witness ==
    /\ pc = "done"
    /\ AllTransient
    /\ max_retries = 10
    /\ attempts = 11
    /\ Len(waits) = 10
    /\ outcome.fmt = "Maximum number of retries"

\* The smallest sleep that can follow a sleep of v seconds.
SmallestAfter(v) == NextDelay(v, policy, RandomDraws.lo)

\* Every sleep is longer than the one before.  With jitter on this is
\* required of every run the ranges stand for: the sleep after one of v
\* seconds is at least SmallestAfter(v), which is linear in v, so the two
\* ends of the range of v decide for all of it.
WaitsIncreasing ==
    \A i \in 1..(Len(waits) - 1) :
        /\ waits[i + 1].lo = SmallestAfter(waits[i].lo)
        /\ \A v \in {waits[i].lo, waits[i].hi} : SmallestAfter(v) > v

\* Every sleep is at least exponential_base times the one before: with
\* jitter off the sleeps are exact and compared as recorded, with jitter on
\* the smallest sleep after v is compared at the two ends of each range.
WaitsGrowByBase ==
    \A i \in 1..(Len(waits) - 1) :
        /\ \A v \in {waits[i].lo, waits[i].hi} :
              SmallestAfter(v) >= policy.exponential_base * v
        /\ ~policy.jitter =>
              /\ waits[i + 1].hi = waits[i + 1].lo
              /\ waits[i + 1].lo >= policy.exponential_base * waits[i].lo

\* Every sleep lasts 0 seconds.
WaitsAllZero == \A i \in 1..Len(waits) : waits[i] = Exactly(0)

\* func returned at its latest call: the wrapper returns that value at call
\* k + 1, k <= max_retries being the number of transient errors before it,
\* after exactly k sleeps.
ReturnsAfterKWaits ==
    /\ outcome = Returned(last_value)
    /\ last_value \in Values
    /\ attempts = transient + 1
    /\ transient <= max_retries
    /\ Len(waits) = transient

\* C2 as stated: when func raises k transient errors and then returns, the
\* wrapper returns that value after exactly k sleeps, and the sleeps are
\* strictly increasing (by a factor of at least exponential_base with jitter
\* off), for every policy with an exponential_base of at least 2.
C2_Original ==
    (pc = "done" /\ last_err = NoErr /\ attempts >= 1
     /\ policy.exponential_base >= 2) =>
        (ReturnsAfterKWaits /\ WaitsIncreasing /\ WaitsGrowByBase)

\* C2, amended: when func raises k transient errors and then returns, the
\* wrapper returns that value at call k + 1 after exactly k sleeps; every
\* sleep is at least exponential_base times the one before (with jitter on
\* or off); the sleeps are strictly increasing when initial_delay is
\* positive and exponential_base is at least 2; with initial_delay = 0
\* every sleep lasts 0 seconds.
C2_SuccessAfterKTransient ==
    (pc = "done" /\ last_err = NoErr /\ attempts >= 1) =>
        /\ ReturnsAfterKWaits
        /\ WaitsGrowByBase
        /\ (policy.initial_delay > 0 /\ policy.exponential_base >= 2)
              => WaitsIncreasing
        /\ policy.initial_delay = 0 => WaitsAllZero

C2_Witness ==
    /\ pc = "done"
    /\ outcome.kind = "return"
    /\ max_retries = 10
    /\ transient = 10
    /\ Len(waits) = 10
    /\ policy.initial_delay > 0
    /\ policy.exponential_base >= 2
    /\ ~policy.jitter

\* C3: the sleeps of one invocation add up to at most hour_budget * 3600
\* seconds (for a numeric, positive hour_budget).
C3_WaitsWithinHourBudget ==
    (policy.hb_numeric /\ BudgetSeconds(policy) > 0) =>
        SumSeq(waits) <= BudgetSeconds(policy)

\* C4: when a call of func raises a status_errors instance, the invocation
\* ends at that call with the "Error status ..." error, without a wait after
\* it and without another call.
C4_StatusErrorFailsAtOnce ==
    (pc = "done" /\ LastRaised(status_errors)) =>
        /\ outcome.kind = "raise"
        /\ outcome.exc = "Exception"
        /\ outcome.fmt = "Error status"
        /\ attempts = transient + 1
        /\ Len(waits) = transient

\* C5: for every status_errors instance the error that leaves the wrapper is
\* the "Error status" error with the status code and the message of the
\* body, or the documentation pointer when the body has no message or there
\* is no body; no other error leaves this branch.
C5_RequestRejectedMessage ==
    (pc = "done" /\ LastRaised(status_errors)) =>
        outcome = RequestRejected(last_err.status_code,
                                  IF last_err.body.kind = "dict"
                                     /\ last_err.body.has_message
                                  THEN last_err.body.message
                                  ELSE DocPointer)

\* C6: an error that is neither a status_errors nor a wait_errors instance
\* nor an OpenAIError leaves the wrapper as it is, at the call that raised
\* it, without a wait after it and without another call.
C6_UnknownErrorPropagates ==
    (last_err # NoErr
     /\ ~IsInstance(last_err, status_errors)
     /\ ~IsInstance(last_err, wait_errors)
     /\ ~IsInstance(last_err, {"OpenAIError"})) =>
        /\ pc = "done"
        /\ outcome.kind = "raise"
        /\ outcome.exc = last_err.cls
        /\ outcome.orig = last_err
        /\ outcome.fmt = "original"
        /\ attempts = transient + 1
        /\ Len(waits) = transient

C6_Witness ==
    /\ pc = "done"
    /\ last_err.cls = "ValueError"
    /\ outcome.exc = "ValueError"
    /\ transient >= 2

\* C7: an OpenAIError outside status_errors and wait_errors ends the
\* invocation at that call with the "General <message> error" error, with no
\* wait after it; an OpenAIError in wait_errors goes through the retry
\* branch (counted, then slept on or reported as retries exhausted) and is
\* never reported as the "General" error.
C7_GeneralErrorOnlyForUnclassified ==
    /\ (LastRaised({"OpenAIError"})
        /\ ~IsInstance(last_err, status_errors)
        /\ ~IsInstance(last_err, wait_errors)) =>
           /\ pc = "done"
           /\ outcome.kind = "raise"
           /\ outcome.exc = "Exception"
           /\ outcome.fmt = "General"
           /\ outcome.text = last_err.message
           /\ attempts = transient + 1
           /\ Len(waits) = transient
    /\ (LastRaised({"OpenAIError"}) /\ IsInstance(last_err, wait_errors)) =>
           /\ outcome.fmt # "General"
           /\ num_retries = transient
           /\ pc = "call" => (Len(waits) = transient /\ transient <= max_retries)
           /\ pc = "done" => (outcome = RetriesExhausted(max_retries)
                              /\ transient = max_retries + 1)

C7_Witness ==
    /\ pc = "done"
    /\ last_err.cls = "APIError"
    /\ outcome.fmt = "General"
    /\ transient >= 1

(* ---------------------------------------------------------------------- *)
(* Properties of the truncator (specification SpecTrunc)                  *)
(* ---------------------------------------------------------------------- *)

\* The token count of a sequence for the model of the call (supported model).
TokensOf(msgs) == SumMessages(msgs) + 2

\* C8: a sequence whose token count is at most max_tokens is returned as it
\* was passed, whatever the truncation side.
C8_WithinBudgetUnchanged ==
    (tpc = "done" /\ IsTurbo(model_name)
     /\ TokensOf(orig_messages) <= max_tokens) =>
        t_outcome = TReturned(orig_messages)

C8_Witness ==
    /\ tpc = "done"
    /\ Len(orig_messages) = 3
    /\ TokensOf(orig_messages) = max_tokens
    /\ truncate = "last"
    /\ t_outcome = TReturned(orig_messages)

\* C9: whenever the loop test finds the working sequence over max_tokens,
\* a working sequence of one message is returned as it is and a working
\* sequence of two messages is returned without its last message, on either
\* side and also after earlier drops.
C9_EdgeCasesReturn ==
    [][(tpc = "loop" /\ TokensOf(messages) > max_tokens) =>
          /\ Len(messages) = 1 =>
                (tpc' = "done" /\ t_outcome' = TReturned(messages))
          /\ Len(messages) = 2 =>
                (tpc' = "done" /\ t_outcome' = TReturned(<<messages[1]>>))]_vars

C9_Witness ==
    /\ tpc = "done"
    /\ Len(orig_messages) = 3
    /\ orig_messages[1] # orig_messages[2]
    /\ orig_messages[1] # orig_messages[3]
    /\ TokensOf(<<orig_messages[1]>>) > max_tokens
    /\ t_outcome = TReturned(<<orig_messages[1]>>)

\* C10: for an input of at least one message, the working sequence at every
\* loop test and the returned sequence are non-empty and start with the
\* original message 0.
C10_PrimingMessageKept ==
    Len(orig_messages) >= 1 =>
        /\ tpc = "loop" =>
              (Len(messages) >= 1 /\ messages[1] = orig_messages[1])
        /\ t_outcome.kind = "return" =>
              (Len(t_outcome.msgs) >= 1
               /\ t_outcome.msgs[1] = orig_messages[1])

C10_Witness ==
    /\ tpc = "done"
    /\ t_outcome.kind = "return"
    /\ truncate = "first"
    /\ Len(orig_messages) = 3
    /\ Len(t_outcome.msgs) = 2
    /\ orig_messages[1] # orig_messages[2]
    /\ t_outcome.msgs = <<orig_messages[1], orig_messages[3]>>

\* C11: the loop ends for every input, the empty sequence included: when the
\* loop test finds the working sequence over max_tokens and it has at most
\* two messages (nothing is left to drop), the call returns at that test.
C11_LoopEndsWhenNothingToDrop ==
    [][(tpc = "loop" /\ TokensOf(messages) > max_tokens /\ Len(messages) <= 2)
          => (tpc' = "done" /\ t_outcome'.kind = "return")]_vars

\* The count the formula of the token counter gives, field by field.
FormulaTokens(message) ==
    4 + Len(message.role) + Len(message.content)
      + (IF "name" \in DOMAIN message THEN Len(message.name) - 1 ELSE 0)

RECURSIVE FormulaCount(_)
FormulaCount(msgs) ==
    IF msgs = <<>> THEN 2
    ELSE FormulaTokens(msgs[Len(msgs)]) + FormulaCount(SubSeq(msgs, 1, Len(msgs) - 1))

\* C12: for a supported model the count of the working sequence is 2 plus,
\* for every message, 4 plus the encoded length of each field value, minus 1
\* when the message has a name; the single message {role: "system",
\* content: "a"} counts 13.
C12_CountFollowsFormula ==
    (tpc \in {"loop", "done"} /\ t_outcome.kind # "raise") =>
        /\ n_tokens = FormulaCount(messages)
        /\ messages = <<[role |-> "system", content |-> "a"]>> => n_tokens = 13

C12_Witness ==
    /\ tpc = "loop"
    /\ messages = <<[role |-> "system", content |-> "a"]>>
    /\ n_tokens = 13

\* C13: for a model outside the "gpt-3.5-turbo" family the token counter
\* gives no count and fails with NotImplementedError, and a call of the
\* truncator with such a model ends with that error, not with a sequence.
C13_UnsupportedModelNotImplemented ==
    ~IsTurbo(model_name) =>
        /\ count_tokens(orig_messages, model_name).exc = "NotImplementedError"
        /\ tpc # "loop"
        /\ t_outcome.kind # "return"
        /\ tpc = "done" => t_outcome = TRaised("NotImplementedError")

\* initial_delay = 1, hour_budget = 0.3, exponential_base = 2.
DefaultBudgetPolicy ==
    /\ policy.initial_delay = 1
    /\ policy.hb_numeric
    /\ policy.hb_tenths = 3
    /\ policy.exponential_base = 2

\* C14: with initial_delay = 1, hour_budget = 0.3 and exponential_base = 2
\* every invocation computes max_retries = 10 (round(log2(1080))), with or
\* without jitter, and keeps that value to its end.
C14_DefaultMaxRetriesIsTen ==
    (DefaultBudgetPolicy /\ pc # "start") =>
        (max_retries = 10 /\ outcome.exc # "ZeroDivisionError")

C14_Witness ==
    /\ DefaultBudgetPolicy
    /\ pc = "done"
    /\ max_retries = 10
    /\ attempts = 11
    /\ outcome = RetriesExhausted(10)

\* The policies for which round(log(...) / log(...)) has no value.
FormulaUnevaluable(p) ==
    \/ ~p.hb_numeric
    \/ p.hb_tenths <= 0
    \/ p.initial_delay = 0
    \/ p.exponential_base = 1

\* C15: the max_retries computation never ends the call: once it has run,
\* max_retries is an integer >= 1, it is 10 when the formula cannot be
\* evaluated, and func is called at least once before the invocation ends.
C15_MaxRetriesNeverFailsTheCall ==
    pc # "start" =>
        /\ max_retries >= 1
        /\ FormulaUnevaluable(policy) => max_retries = 10
        /\ pc = "done" => attempts >= 1

(* ---------------------------------------------------------------------- *)
(* Properties of several invocations (specification SpecCalls)            *)
(* ---------------------------------------------------------------------- *)

\* The locals of context i are what its own invocation made them: the retry
\* count is the number of its own transient failures, the delay is
\* initial_delay multiplied once per own failure, and the limit is the
\* policy's.
OwnRetryState(i) ==
    frames[i].pc = "call" =>
        /\ frames[i].num_retries = frames[i].failures
        /\ frames[i].delay =
              Exactly(policy.initial_delay
                      * Pow(policy.exponential_base, frames[i].failures))
        /\ frames[i].max_retries = ComputeMaxRetriesOf(policy).value
        /\ frames[i].failures <= frames[i].max_retries

\* C16: in every interleaving of invocations of one wrapped function, each
\* invocation starts with retry count 0 and delay initial_delay, its retry
\* count, delay and limit follow from its own failures only, and a step of
\* one invocation leaves the locals of every other invocation as they were.
C16_RetryStatePerInvocation ==
    /\ [](\A i \in 1..NumCalls : OwnRetryState(i))
    /\ [][\A i, j \in 1..NumCalls :
             (i # j /\ frames'[i] # frames[i]) => frames'[j] = frames[j]]_vars

C16_Witness ==
    /\ frames[1].pc = "call"
    /\ frames[1].failures = 3
    /\ frames[2].pc = "call"
    /\ frames[2].num_retries = 0
    /\ frames[2].delay = Exactly(policy.initial_delay)
    /\ policy.initial_delay > 0

(* ---------------------------------------------------------------------- *)
(* Termination and shape of the retry loop (Spec and SpecFair)            *)
(* ---------------------------------------------------------------------- *)

\* C17: when every call of func and every sleep ends, the invocation ends
\* (returns or raises); at every point func has been called at most
\* max_retries + 1 times, and num_retries is at most max_retries + 1 and
\* equals the number of transient failures so far.
C17_InvocationEnds ==
    /\ <>(pc = "done" /\ outcome.kind \in {"return", "raise"})
    /\ [](pc # "start" =>
             /\ attempts <= max_retries + 1
             /\ num_retries <= max_retries + 1
             /\ num_retries = transient)

C17_Witness ==
    /\ pc = "done"
    /\ outcome.kind = "raise"
    /\ num_retries = max_retries + 1
    /\ transient = 11
    /\ attempts = 11

\* C18: a sleep happens only in the step that handles a transient failure
\* within the retry limit, and a further call of func only right after such
\* a sleep; once the invocation has ended (value returned or error raised)
\* there is no further call, no sleep, and the outcome is not replaced.
C18_WaitOnlyAfterTransientFailure ==
    [][/\ Len(waits') > Len(waits) =>
             /\ pc = "call" /\ pc' = "call"
             /\ IsInstance(last_err', wait_errors)
             /\ num_retries' <= max_retries
             /\ outcome' = Running
       /\ (attempts' > attempts /\ attempts >= 1) =>
             /\ IsInstance(last_err, wait_errors)
             /\ Len(waits) = attempts
             /\ outcome = Running
       /\ outcome' # Running => pc' = "done"
       /\ pc = "done" =>
             /\ pc' = "done"
             /\ outcome' = outcome
             /\ attempts' = attempts
             /\ waits' = waits]_vars

C18_Witness ==
    /\ pc = "done"
    /\ outcome.fmt = "General"
    /\ attempts = 3
    /\ Len(waits) = 2
    /\ transient = 2

(* ---------------------------------------------------------------------- *)
(* What the truncator returns (specification SpecTrunc)                   *)
(* ---------------------------------------------------------------------- *)

\* C19: for an input of at least one message the returned sequence is within
\* max_tokens or is message 0 alone; a result of two or more messages is
\* never over max_tokens.
C19_ResultFitsOrIsPriming ==
    (t_outcome.kind = "return" /\ Len(orig_messages) >= 1) =>
        /\ \/ TokensOf(t_outcome.msgs) <= max_tokens
           \/ t_outcome.msgs = <<orig_messages[1]>>
        /\ Len(t_outcome.msgs) >= 2 => TokensOf(t_outcome.msgs) <= max_tokens

C19_Witness ==
    /\ t_outcome.kind = "return"
    /\ Len(orig_messages) = 3
    /\ TokensOf(orig_messages) > max_tokens
    /\ Len(t_outcome.msgs) = 2
    /\ TokensOf(t_outcome.msgs) <= max_tokens

\* Message 0 followed by the last k (side 'first') or the first k (any other
\* side) of the messages after it.
KeptWith(k) ==
    LET rest == Tail(orig_messages) IN
    <<orig_messages[1]>> \o
        (IF truncate = "first" THEN SubSeq(rest, Len(rest) - k + 1, Len(rest))
         ELSE SubSeq(rest, 1, k))

FittingSizes ==
    {k \in 1..(Len(orig_messages) - 1) : TokensOf(KeptWith(k)) <= max_tokens}

LongestFitting ==
    IF FittingSizes = {} THEN <<orig_messages[1]>>
    ELSE KeptWith(CHOOSE k \in FittingSizes : \A j \in FittingSizes : j <= k)

\* C20: for an input of at least one message the result is message 0
\* followed by the longest suffix (side 'first') or the longest prefix (any
\* other side) of the other messages with which the count fits, in the
\* original order, and message 0 alone when none fits.
C20_LongestFittingSuffixOrPrefix ==
    (t_outcome.kind = "return" /\ Len(orig_messages) >= 1) =>
        t_outcome.msgs = LongestFitting

\* Two drops on side 'first' leave message 0 and the last two of five
\* different-looking messages, in their order, where the last three do not
\* fit.
C20_Witness ==
    /\ t_outcome.kind = "return"
    /\ truncate = "first"
    /\ Len(orig_messages) = 5
    /\ iterations = 2
    /\ orig_messages[4] # orig_messages[5]
    /\ orig_messages[3] # orig_messages[4]
    /\ FittingSizes = {1, 2}
    /\ t_outcome.msgs = <<orig_messages[1], orig_messages[4], orig_messages[5]>>

====
